---- MODULE Spec2Model ----
(***************************************************************************)
(* easytab-rs: the EasyTablet handle (src/src/main.rs, src/src/win32.rs)   *)
(* and the AsyncStylusHandler plug-in it registers with a RealTimeStylus.  *)
(*                                                                         *)
(* The RealTimeStylus itself is Windows code.  It is modelled only as the  *)
(* caller of the plug-in's methods: it calls them one at a time, while it  *)
(* is enabled and for as long as it is alive, and it announces being       *)
(* disabled with one RealTimeStylusDisabled call.                          *)
(***************************************************************************)
EXTENDS Integers, Sequences, FiniteSets, TLC

VARIABLES
    debug_assertions, \* build flag: are debug_assert! checks compiled in
    handle,           \* "none" (init failed), "live" (EasyTablet owned by the caller), "dropped"
    rc,               \* strong count of the Rc<__InnerTablet>
    stylusEnabled,    \* the RealTimeStylus' enabled flag (SetEnabled)
    pendingDisabled,  \* a RealTimeStylusDisabled call is owed after SetEnabled(false)
    active, x, y, pressure,   \* __InnerTablet's Cells
    on,               \* __InnerTablet.on: "None" or the boxed observer
    ret,              \* what the last call returned: "Ok", an error ("Err", or the
                      \* init_options call that failed), or "Panic"
    printed,          \* a plug-in method has written a line to stdout (println!)
    limit,            \* how many events handle_event takes in this behaviour
    log,              \* history: the events handle_event was called with
    calls,            \* history: the observer invocations, <<observer, event>>
    fresh             \* history: nothing was done since init_options returned

vars == <<debug_assertions, handle, rc, stylusEnabled, pendingDisabled,
          active, x, y, pressure, on, ret, printed, limit, log, calls, fresh>>

\* the Cells of __InnerTablet that the handle's getters read
shared == <<active, x, y, pressure>>

-----------------------------------------------------------------------------
\* Bounds

\* at most this many events are handed to handle_event in one behaviour
MaxEvents == 3

\* the same, for the runs of main() (the end-to-end scenario has four events)
MaxMainEvents == 4

\* stylus positions the driver reports (POINT.x, POINT.y)
Points == {<<3, 4>>, <<5, 7>>, <<10, 20>>}

\* observers the application registers
Observers == {"A", "B"}

\* what a plug-in method gets as pirtssrc: the handle's own stylus, another
\* RealTimeStylus, or no object at all
Sources == {"own", "other", "null"}

-----------------------------------------------------------------------------
\* WinTabEvent

StylusActive == [tag |-> "StylusActive", x |-> 0, y |-> 0]
StylusInactive == [tag |-> "StylusInactive", x |-> 0, y |-> 0]
StylusButtonDown(px, py) == [tag |-> "StylusButtonDown", x |-> px, y |-> py]
StylusButtonUp(px, py) == [tag |-> "StylusButtonUp", x |-> px, y |-> py]

-----------------------------------------------------------------------------
\* EasyTablet::init_options.  Each of its platform calls may fail; any
\* failure returns the error and no handle.

InitOutcomes ==
    {"Ok", "ErrCoCreateInstance", "ErrSetHWND", "ErrGetStylusAsyncPluginCount",
     "ErrAddStylusAsyncPlugin"}

\* init_options with the position Cells set to a "no position" value of -1
\* instead of Cell::default()
init_options_no_position(outcome) ==
    /\ handle = IF outcome = "Ok" THEN "live" ELSE "none"
    /\ ret = outcome
    /\ rc = IF outcome = "Ok" THEN 2 ELSE 0
    /\ stylusEnabled = FALSE
    /\ pendingDisabled = FALSE
    /\ on = "None"
    /\ active = FALSE
    /\ x = -1
    /\ y = -1
    /\ pressure = 0

\* init_options with the result of AddStylusAsyncPlugin dropped instead of
\* returned: the handle exists, the AsyncStylusHandler is freed unregistered
init_options_unchecked_add(outcome) ==
    /\ handle = IF outcome \in {"Ok", "ErrAddStylusAsyncPlugin"} THEN "live" ELSE "none"
    /\ ret = IF outcome = "ErrAddStylusAsyncPlugin" THEN "Ok" ELSE outcome
    /\ rc = CASE outcome = "Ok" -> 2
              [] outcome = "ErrAddStylusAsyncPlugin" -> 1
              [] OTHER -> 0
    /\ stylusEnabled = FALSE
    /\ pendingDisabled = FALSE
    /\ on = "None"
    /\ active = FALSE
    /\ x = 0
    /\ y = 0
    /\ pressure = 0

init_options(outcome) ==
    /\ handle = IF outcome = "Ok" THEN "live" ELSE "none"
    /\ ret = outcome
    \* Rc::new, then Rc::clone into the AsyncStylusHandler
    /\ rc = IF outcome = "Ok" THEN 2 ELSE 0
    /\ stylusEnabled = FALSE
    /\ pendingDisabled = FALSE
    /\ on = "None"
    /\ active = FALSE
    /\ x = 0
    /\ y = 0
    /\ pressure = 0

Init ==
    /\ debug_assertions \in BOOLEAN
    /\ \E outcome \in InitOutcomes : init_options(outcome)
    /\ printed = FALSE
    /\ limit = MaxEvents
    /\ log = <<>>
    /\ calls = <<>>
    /\ fresh = TRUE

\* the process is running (no panic so far)
Running == ret # "Panic"

\* the caller still owns the EasyTablet
HandleLive == handle = "live" /\ Running

\* The AsyncStylusHandler is in the stylus' plug-in list.  The stylus is a
\* field of __InnerTablet, so it lives exactly as long as the Rc's value; no
\* code removes the plug-in.
PluginRegistered == rc > 0 /\ Running

-----------------------------------------------------------------------------
\* __InnerTablet::handle_event: the match on the event.  The observer is not
\* read: the dispatch is commented out.

\* the variants the match names
WinTabEventTags == {"StylusActive", "StylusInactive", "StylusButtonDown", "StylusButtonUp"}

\* the match's fallback arm, _ => todo!(): a panic before any Cell is set
unimplemented == UNCHANGED <<active, x, y>>

\* handle_event with a StylusInactive arm that also clears the position
handle_event_clearing(event) ==
    /\ Len(log) < limit
    /\ CASE event.tag = "StylusActive" ->
              /\ active' = TRUE
              /\ UNCHANGED <<x, y>>
         [] event.tag = "StylusInactive" ->
              /\ active' = FALSE
              /\ x' = 0
              /\ y' = 0
         [] event.tag \in {"StylusButtonDown", "StylusButtonUp"} ->
              /\ x' = event.x
              /\ y' = event.y
              /\ UNCHANGED active
         [] OTHER -> unimplemented
    /\ log' = Append(log, event)
    /\ ret' = IF event.tag \in WinTabEventTags THEN "Ok" ELSE "Panic"
    /\ UNCHANGED <<pressure, on, calls>>

\* handle_event with the button arm also storing a pressure
handle_event_pressure(event) ==
    /\ Len(log) < limit
    /\ CASE event.tag = "StylusActive" ->
              /\ active' = TRUE
              /\ UNCHANGED <<x, y>>
         [] event.tag = "StylusInactive" ->
              /\ active' = FALSE
              /\ UNCHANGED <<x, y>>
         [] event.tag \in {"StylusButtonDown", "StylusButtonUp"} ->
              /\ x' = event.x
              /\ y' = event.y
              /\ UNCHANGED active
         [] OTHER -> unimplemented
    /\ log' = Append(log, event)
    /\ ret' = IF event.tag \in WinTabEventTags THEN "Ok" ELSE "Panic"
    /\ pressure' = IF event.tag \in {"StylusButtonDown", "StylusButtonUp"} THEN 1 ELSE pressure
    /\ UNCHANGED <<on, calls>>

\* handle_event with a StylusButtonUp arm that stores x alone
handle_event_x_only(event) ==
    /\ Len(log) < limit
    /\ CASE event.tag = "StylusActive" ->
              /\ active' = TRUE
              /\ UNCHANGED <<x, y>>
         [] event.tag = "StylusInactive" ->
              /\ active' = FALSE
              /\ UNCHANGED <<x, y>>
         [] event.tag = "StylusButtonDown" ->
              /\ x' = event.x
              /\ y' = event.y
              /\ UNCHANGED active
         [] event.tag = "StylusButtonUp" ->
              /\ x' = event.x
              /\ UNCHANGED <<active, y>>
         [] OTHER -> unimplemented
    /\ log' = Append(log, event)
    /\ ret' = IF event.tag \in WinTabEventTags THEN "Ok" ELSE "Panic"
    /\ pressure' = pressure
    /\ UNCHANGED <<on, calls>>

\* handle_event without a StylusButtonUp arm: it falls to todo!()
handle_event_no_button_up(event) ==
    /\ Len(log) < limit
    /\ CASE event.tag = "StylusActive" ->
              /\ active' = TRUE
              /\ UNCHANGED <<x, y>>
         [] event.tag = "StylusInactive" ->
              /\ active' = FALSE
              /\ UNCHANGED <<x, y>>
         [] event.tag = "StylusButtonDown" ->
              /\ x' = event.x
              /\ y' = event.y
              /\ UNCHANGED active
         [] OTHER -> unimplemented
    /\ log' = Append(log, event)
    /\ ret' = IF event.tag \in (WinTabEventTags \ {"StylusButtonUp"}) THEN "Ok" ELSE "Panic"
    /\ pressure' = pressure
    /\ UNCHANGED <<on, calls>>

handle_event(event) ==
    /\ Len(log) < limit
    /\ CASE event.tag = "StylusActive" ->
              /\ active' = TRUE
              /\ UNCHANGED <<x, y>>
         [] event.tag = "StylusInactive" ->
              /\ active' = FALSE
              /\ UNCHANGED <<x, y>>
         [] event.tag \in {"StylusButtonDown", "StylusButtonUp"} ->
              /\ x' = event.x
              /\ y' = event.y
              /\ UNCHANGED active
         [] OTHER -> unimplemented
    /\ log' = Append(log, event)
    /\ ret' = IF event.tag \in WinTabEventTags THEN "Ok" ELSE "Panic"
    /\ UNCHANGED <<pressure, on, calls>>

\* debug_assert!(pirtssrc.as_ref().unwrap() == &self.0.as_ref().stylus):
\* compiled out without debug assertions; with them, unwrap panics on no
\* object and the assertion panics on another stylus.
OriginAssertPasses(pirtssrc) == ~debug_assertions \/ pirtssrc = "own"

\* a panic inside a plug-in method: nothing of the handler ran
Panics ==
    /\ ret' = "Panic"
    /\ UNCHANGED <<active, x, y, pressure, on, log, calls>>

\* a plug-in method that asserts the origin and then calls handle_event
Checked(pirtssrc, event) ==
    /\ IF OriginAssertPasses(pirtssrc) THEN handle_event(event) ELSE Panics
    /\ UNCHANGED printed

\* a plug-in method whose body is Ok(()), after a println! in some
Ignored(prints) ==
    /\ ret' = "Ok"
    /\ printed' = (printed \/ prints)
    /\ UNCHANGED <<active, x, y, pressure, on, log, calls>>

\* what every plug-in call leaves alone
SinkFrame ==
    /\ fresh' = FALSE
    /\ UNCHANGED <<debug_assertions, limit, handle, rc, stylusEnabled>>

-----------------------------------------------------------------------------
\* impl IStylusPlugin_Impl for AsyncStylusHandler.  The RealTimeStylus calls
\* the plug-in while it is enabled.  Only the methods that read pirtssrc
\* take it as a parameter here.

Delivering ==
    /\ PluginRegistered
    /\ stylusEnabled
    /\ SinkFrame
    /\ UNCHANGED pendingDisabled

RealTimeStylusEnabled == Delivering /\ Ignored(FALSE)

\* called once for each SetEnabled(false) that disabled the stylus
RealTimeStylusDisabled(pirtssrc) ==
    /\ PluginRegistered
    /\ pendingDisabled
    /\ pendingDisabled' = FALSE
    /\ SinkFrame
    /\ Checked(pirtssrc, StylusInactive)

\* StylusInRange treated as the start of contact
StylusInRange_active == Delivering /\ Checked("own", StylusActive)

StylusInRange == Delivering /\ Ignored(FALSE)

StylusOutOfRange(pirtssrc) == Delivering /\ Checked(pirtssrc, StylusInactive)

StylusDown(pirtssrc) == Delivering /\ Checked(pirtssrc, StylusActive)

StylusUp(pirtssrc) == Delivering /\ Checked(pirtssrc, StylusInactive)

StylusButtonDownPlugin(pirtssrc, pstyluspos) ==
    /\ Delivering
    /\ Checked(pirtssrc, StylusButtonDown(pstyluspos[1], pstyluspos[2]))

\* StylusButtonUp with the POINT's fields taken in the wrong order
StylusButtonUpPlugin_swapped(pirtssrc, pstyluspos) ==
    /\ Delivering
    /\ Checked(pirtssrc, StylusButtonUp(pstyluspos[2], pstyluspos[1]))

StylusButtonUpPlugin(pirtssrc, pstyluspos) ==
    /\ Delivering
    /\ Checked(pirtssrc, StylusButtonUp(pstyluspos[1], pstyluspos[2]))

InAirPackets == Delivering /\ Ignored(FALSE)

Packets == Delivering /\ Ignored(TRUE)

CustomStylusDataAdded == Delivering /\ Ignored(TRUE)

SystemEvent == Delivering /\ Ignored(TRUE)

TabletAdded == Delivering /\ Ignored(TRUE)

TabletRemoved == Delivering /\ Ignored(TRUE)

Error == Delivering /\ Ignored(TRUE)

UpdateMapping == Delivering /\ Ignored(TRUE)

-----------------------------------------------------------------------------
\* The public operations of EasyTablet

\* what an operation on the handle leaves alone
ApiFrame ==
    /\ fresh' = FALSE
    /\ UNCHANGED <<debug_assertions, limit, printed, log, calls>>

\* SetEnabled(true), its error mapped by ERROR_FN and returned
\* enable that marks the stylus enabled before it looks at the result
SetEnabledTrue_partial(accepted) ==
    /\ HandleLive
    /\ ApiFrame
    /\ stylusEnabled' = TRUE
    /\ ret' = IF accepted THEN "Ok" ELSE "Err"
    /\ UNCHANGED <<handle, rc, pendingDisabled, active, x, y, pressure, on>>

SetEnabledTrue(accepted) ==
    /\ HandleLive
    /\ ApiFrame
    /\ IF accepted
       THEN /\ stylusEnabled' = TRUE
            /\ ret' = "Ok"
       ELSE /\ ret' = "Err"
            /\ UNCHANGED stylusEnabled
    /\ UNCHANGED <<handle, rc, pendingDisabled, active, x, y, pressure, on>>

enable == \E accepted \in BOOLEAN : SetEnabledTrue(accepted)

\* disable that also resets the Cells to their defaults
disable_resetting ==
    /\ HandleLive
    /\ ApiFrame
    /\ \E accepted \in BOOLEAN :
          IF accepted
          THEN /\ stylusEnabled' = FALSE
               /\ pendingDisabled' = (stylusEnabled \/ pendingDisabled)
               /\ ret' = "Ok"
               /\ active' = FALSE
               /\ x' = 0
               /\ y' = 0
          ELSE /\ ret' = "Err"
               /\ UNCHANGED <<stylusEnabled, pendingDisabled, active, x, y>>
    /\ UNCHANGED <<handle, rc, pressure, on>>

\* SetEnabled(false); a stylus that was enabled announces it to its plug-ins
\* disable that passes true to SetEnabled, as enable does
SetEnabledFalse_true(accepted) ==
    /\ HandleLive
    /\ ApiFrame
    /\ IF accepted
       THEN /\ stylusEnabled' = TRUE
            /\ ret' = "Ok"
       ELSE /\ ret' = "Err"
            /\ UNCHANGED stylusEnabled
    /\ UNCHANGED <<handle, rc, pendingDisabled, active, x, y, pressure, on>>

SetEnabledFalse(accepted) ==
    /\ HandleLive
    /\ ApiFrame
    /\ IF accepted
       THEN /\ stylusEnabled' = FALSE
            /\ pendingDisabled' = (stylusEnabled \/ pendingDisabled)
            /\ ret' = "Ok"
       ELSE /\ ret' = "Err"
            /\ UNCHANGED <<stylusEnabled, pendingDisabled>>
    /\ UNCHANGED <<handle, rc, active, x, y, pressure, on>>

disable == \E accepted \in BOOLEAN : SetEnabledFalse(accepted)

\* EasyTablet::on: self.on.set(Some(cb)); the slot holds the one observer
On(cb) ==
    /\ HandleLive
    /\ ApiFrame
    /\ on' = cb
    /\ UNCHANGED <<handle, rc, stylusEnabled, pendingDisabled, active, x, y, pressure, ret>>

\* EasyTablet::active, x, y, pressure: what each returns (Cell::get)
EasyTablet_active == active

\* x() reading the y Cell
EasyTablet_x_reads_y == y

EasyTablet_x == x

EasyTablet_y == y

EasyTablet_pressure == pressure

\* a call of one of the four getters: it reads a Cell and writes nothing
Getter ==
    /\ HandleLive
    /\ UNCHANGED vars

\* The caller drops the EasyTablet.  There is no Drop impl: the Rc loses one
\* strong reference, and its value (the Cells, the observer, the stylus with
\* its plug-in list) is freed only when none is left.  The other reference
\* is the AsyncStylusHandler's, held by the stylus.
DropHandle ==
    /\ HandleLive
    /\ ApiFrame
    /\ handle' = "dropped"
    /\ rc' = rc - 1
    /\ on' = IF rc' = 0 THEN "None" ELSE on
    /\ stylusEnabled' = IF rc' = 0 THEN FALSE ELSE stylusEnabled
    /\ pendingDisabled' = IF rc' = 0 THEN FALSE ELSE pendingDisabled
    /\ UNCHANGED <<active, x, y, pressure, ret>>

-----------------------------------------------------------------------------
Next ==
    \/ enable
    \/ disable
    \/ \E cb \in Observers : On(cb)
    \/ Getter
    \/ DropHandle
    \/ RealTimeStylusEnabled
    \/ \E pirtssrc \in Sources : RealTimeStylusDisabled(pirtssrc)
    \/ StylusInRange
    \/ \E pirtssrc \in Sources : StylusOutOfRange(pirtssrc)
    \/ \E pirtssrc \in Sources : StylusDown(pirtssrc)
    \/ \E pirtssrc \in Sources : StylusUp(pirtssrc)
    \/ \E pirtssrc \in Sources, pstyluspos \in Points :
          StylusButtonDownPlugin(pirtssrc, pstyluspos)
    \/ \E pirtssrc \in Sources, pstyluspos \in Points :
          StylusButtonUpPlugin(pirtssrc, pstyluspos)
    \/ InAirPackets
    \/ Packets
    \/ CustomStylusDataAdded
    \/ SystemEvent
    \/ TabletAdded
    \/ TabletRemoved
    \/ Error
    \/ UpdateMapping

Spec == Init /\ [][Next]_vars

\* main(): init(hwnd).expect(..), enable().expect(..), on(Box::new(..)), then
\* the event loop, in which the stylus calls the plug-in.  A failure of init
\* or enable ends the process before the loop.
MainInit ==
    /\ debug_assertions \in BOOLEAN
    /\ handle = "live"
    /\ ret = "Ok"
    /\ rc = 2
    /\ stylusEnabled = TRUE
    /\ pendingDisabled = FALSE
    /\ on = "A"
    /\ active = FALSE
    /\ x = 0
    /\ y = 0
    /\ pressure = 0
    /\ printed = FALSE
    /\ limit = MaxMainEvents
    /\ log = <<>>
    /\ calls = <<>>
    /\ fresh = FALSE

SpecMain == MainInit /\ [][Next]_vars

-----------------------------------------------------------------------------
\* Vocabulary of the properties

Last(s) == s[Len(s)]

\* the events of a sequence of observer invocations
Events(invocations) == [i \in DOMAIN invocations |-> invocations[i][2]]

\* a plug-in method outside the six that translate is called
IgnoredCall ==
    \/ RealTimeStylusEnabled
    \/ StylusInRange
    \/ InAirPackets
    \/ Packets
    \/ CustomStylusDataAdded
    \/ SystemEvent
    \/ TabletAdded
    \/ TabletRemoved
    \/ Error
    \/ UpdateMapping

\* some plug-in method is called with this pirtssrc
PluginCall(pirtssrc) ==
    \/ IgnoredCall
    \/ RealTimeStylusDisabled(pirtssrc)
    \/ StylusOutOfRange(pirtssrc)
    \/ StylusDown(pirtssrc)
    \/ StylusUp(pirtssrc)
    \/ \E pstyluspos \in Points : StylusButtonDownPlugin(pirtssrc, pstyluspos)
    \/ \E pstyluspos \in Points : StylusButtonUpPlugin(pirtssrc, pstyluspos)

\* the payload of the most recent button event of a log, or (0, 0)
RECURSIVE LastButton(_)
LastButton(events) ==
    IF events = <<>> THEN <<0, 0>>
    ELSE IF Last(events).tag \in {"StylusButtonDown", "StylusButtonUp"}
         THEN <<Last(events).x, Last(events).y>>
         ELSE LastButton(SubSeq(events, 1, Len(events) - 1))

-----------------------------------------------------------------------------
\* C1: every step in which an event is handed to handle_event invokes the
\* registered observer exactly once with that event, and invokes nothing
\* when no observer is registered.
C1_ObserverInvokedOnce ==
    [][log' # log =>
          calls' = IF on = "None" THEN calls
                   ELSE Append(calls, <<on, Last(log')>>)]_vars

\* C2: in a run of main() (init, enable, on, then deliveries), once
\* [contact-begin, button-down(10,20), button-up(10,20), contact-end] have
\* been delivered, the observer has received exactly Active,
\* ButtonDown(10,20), ButtonUp(10,20), Inactive in that order and the handle
\* reads active = false, x = 10, y = 20.
EndToEndEvents ==
    <<StylusActive, StylusButtonDown(10, 20), StylusButtonUp(10, 20), StylusInactive>>

C2_EndToEnd ==
    log = EndToEndEvents =>
        /\ Events(calls) = EndToEndEvents
        /\ active = FALSE
        /\ x = 10
        /\ y = 20

\* C3: a plug-in call of any kind whose pirtssrc is not the handle's own
\* stylus leaves active, x, y and pressure unchanged, invokes no observer and
\* is reported as a fault instead of returning like a normal call.
C3_OriginFault ==
    [][\A pirtssrc \in Sources \ {"own"} :
          PluginCall(pirtssrc) =>
              /\ UNCHANGED shared
              /\ UNCHANGED calls
              /\ ret' = "Panic"]_vars

\* C4 as claimed: a successful disable() and the RealTimeStylusDisabled call
\* it causes leave active, x, y and pressure as they were.
C4_DisablePreservesAll ==
    [][(disable \/ \E pirtssrc \in Sources : RealTimeStylusDisabled(pirtssrc))
          => UNCHANGED shared]_vars

\* C4 as amended: disable() itself leaves active, x, y and pressure as they
\* were; the RealTimeStylusDisabled call it causes leaves x, y and pressure
\* as they were and, unless the origin assertion panics, sets active to
\* false.  After [contact-begin, button-down(3,4)], disable() and that call,
\* the handle reads active = false, x = 3, y = 4.
AfterDisableScenario ==
    /\ log = <<StylusActive, StylusButtonDown(3, 4), StylusInactive>>
    /\ ~stylusEnabled
    /\ ~pendingDisabled

C4_DisableKeepsPosition ==
    /\ [][/\ disable => UNCHANGED shared
          /\ \A pirtssrc \in Sources :
                RealTimeStylusDisabled(pirtssrc) =>
                    /\ UNCHANGED <<x, y, pressure>>
                    /\ ret' # "Panic" => active' = FALSE]_vars
    /\ [](AfterDisableScenario => active = FALSE /\ x = 3 /\ y = 4)

C4_Witness ==
    /\ AfterDisableScenario
    /\ active = FALSE
    /\ x = 3
    /\ y = 4

\* C5: from any state, a contact-begin call from the handle's own stylus sets
\* active to true, and a contact-end, out-of-range or digitizer-disabled call
\* sets it to false; all four leave x, y and pressure unchanged.  After
\* [contact-begin, button-down(5,7), contact-end] the state is active =
\* false, x = 5, y = 7.
C5_ActiveToggling ==
    /\ [][/\ StylusDown("own") =>
                active' = TRUE /\ UNCHANGED <<x, y, pressure>>
          /\ (\/ StylusUp("own")
              \/ StylusOutOfRange("own")
              \/ RealTimeStylusDisabled("own")) =>
                active' = FALSE /\ UNCHANGED <<x, y, pressure>>]_vars
    /\ [](log = <<StylusActive, StylusButtonDown(5, 7), StylusInactive>>
            => active = FALSE /\ x = 5 /\ y = 7)

C5_Witness ==
    /\ log = <<StylusActive, StylusButtonDown(5, 7), StylusInactive>>
    /\ active = FALSE
    /\ x = 5
    /\ y = 7

\* C6: from any state, a button-down or button-up call from the handle's own
\* stylus with position (px, py) results in x = px and y = py, with active
\* and pressure unchanged; in every state (x, y) is the payload of the most
\* recent button event handled, or (0, 0) if there was none.
C6_ButtonSetsPosition ==
    /\ [][\A pstyluspos \in Points :
            (\/ StylusButtonDownPlugin("own", pstyluspos)
             \/ StylusButtonUpPlugin("own", pstyluspos)) =>
                /\ x' = pstyluspos[1]
                /\ y' = pstyluspos[2]
                /\ UNCHANGED <<active, pressure>>]_vars
    /\ [](<<x, y>> = LastButton(log))

C6_Witness ==
    /\ Len(log) = 3
    /\ log[1] = StylusButtonDown(10, 20)
    /\ log[2] = StylusButtonUp(3, 4)
    /\ log[3] = StylusActive
    /\ <<x, y>> = <<3, 4>>

\* C7: a call of a plug-in method outside {RealTimeStylusDisabled,
\* StylusOutOfRange, StylusDown, StylusUp, StylusButtonDown, StylusButtonUp}
\* hands no event to handle_event, leaves active, x, y and pressure
\* unchanged and invokes no observer.
C7_IgnoredKinds ==
    [][IgnoredCall =>
          /\ UNCHANGED shared
          /\ UNCHANGED log
          /\ UNCHANGED calls]_vars

C7_Witness ==
    /\ printed
    /\ ret = "Ok"
    /\ on # "None"
    /\ active = TRUE
    /\ <<x, y>> = <<5, 7>>
    /\ Len(log) = 2

\* C8: the slot holds the last observer registered, and once B has replaced
\* main()'s observer A, every event handled is delivered to B, and to B only.
C8_LastWriterWins ==
    [][/\ \A cb \in Observers : On(cb) => on' = cb
       /\ (on = "B" /\ log' # log) =>
             calls' = Append(calls, <<"B", Last(log')>>)]_vars

\* C9: once the handle is dropped, no plug-in call changes active, x, y or
\* pressure or invokes the observer.
C9_ClosedIsSilent ==
    [][handle = "dropped" =>
          /\ UNCHANGED shared
          /\ UNCHANGED calls]_vars

\* C10: the handle a successful init_options returns reads active = false,
\* x = 0, y = 0, pressure = 0.0 and has no observer, until something is done
\* with it.
C10_DefaultState ==
    (fresh /\ handle = "live") =>
        /\ active = FALSE
        /\ x = 0
        /\ y = 0
        /\ pressure = 0
        /\ on = "None"

C10_Witness ==
    /\ fresh
    /\ handle = "live"
    /\ ret = "Ok"
    /\ rc = 2

\* the active flag the events of a log leave: that of the most recent
\* StylusActive or StylusInactive, or false
RECURSIVE LastActive(_)
LastActive(events) ==
    IF events = <<>> THEN FALSE
    ELSE IF Last(events).tag = "StylusActive" THEN TRUE
    ELSE IF Last(events).tag = "StylusInactive" THEN FALSE
    ELSE LastActive(SubSeq(events, 1, Len(events) - 1))

\* C11: in every reachable state, after any notifications, enable and
\* disable calls and subscriptions, pressure equals its default 0.0.
C11_PressureNeverWritten == pressure = 0

C11_Witness ==
    /\ pressure = 0
    /\ on = "B"
    /\ ~stylusEnabled
    /\ ret = "Ok"
    /\ Len(log) = 3
    /\ log[2] = StylusButtonDown(10, 20)
    /\ log[3] = StylusButtonUp(10, 20)

\* C12: an enable() or disable() the platform rejects returns an error (no
\* panic) and leaves the stylus' enabled state, the handle, active, x, y,
\* pressure and the observer as they were.
C12_RejectedSetEnabled ==
    [][(SetEnabledTrue(FALSE) \/ SetEnabledFalse(FALSE)) =>
          /\ ret' = "Err"
          /\ UNCHANGED <<stylusEnabled, pendingDisabled, handle, rc, on>>
          /\ UNCHANGED shared]_vars

C12_Witness ==
    /\ handle = "live"
    /\ ret = "Err"
    /\ stylusEnabled
    /\ ~pendingDisabled
    /\ on = "A"
    /\ active = TRUE
    /\ <<x, y>> = <<3, 4>>

\* C13: init_options returns an error and no handle when CoCreateInstance,
\* SetHWND or AddStylusAsyncPlugin fails, and a handle only when all
\* succeeded; a handle the caller owns has exactly one AsyncStylusHandler
\* (the second strong reference) registered with its stylus.
InitErrors == InitOutcomes \ {"Ok"}

C13_InitAllOrNothing ==
    /\ ret \in InitErrors => (handle = "none" /\ rc = 0)
    /\ handle = "none" => (ret \in InitErrors /\ fresh)
    /\ (fresh /\ ret = "Ok") => handle = "live"
    /\ handle = "live" => (rc = 2 /\ (Running => PluginRegistered))

C13_Witness ==
    /\ ret = "ErrAddStylusAsyncPlugin"
    /\ handle = "none"
    /\ rc = 0
    /\ fresh

\* C14: with the stylus never enabled, enabled or disabled, a getter can be
\* called on the handle; active(), x(), y() and pressure() return what the
\* events handled so far left (or the defaults), and the call changes
\* nothing.
C14_GettersReadSnapshot ==
    /\ [](HandleLive =>
            /\ ENABLED Getter
            /\ EasyTablet_active = LastActive(log)
            /\ EasyTablet_x = LastButton(log)[1]
            /\ EasyTablet_y = LastButton(log)[2]
            /\ EasyTablet_pressure = 0)
    /\ [][Getter => UNCHANGED <<shared, on, stylusEnabled, pendingDisabled, handle, rc>>]_vars

C14_Witness ==
    /\ HandleLive
    /\ ~stylusEnabled
    /\ EasyTablet_active = TRUE
    /\ EasyTablet_x = 10
    /\ EasyTablet_y = 20
    /\ EasyTablet_pressure = 0
    /\ Len(log) = 2

\* C15: in every state a reader can run in (between two plug-in calls), the
\* pair (x(), y()) is the payload of one button event or (0, 0), never x of
\* one event with y of another.
C15_PositionNotTorn ==
    <<EasyTablet_x, EasyTablet_y>> \in Points \cup {<<0, 0>>}

C15_Witness ==
    /\ Len(log) = 2
    /\ log[1] = StylusButtonDown(10, 20)
    /\ log[2] = StylusButtonUp(5, 7)
    /\ <<EasyTablet_x, EasyTablet_y>> = <<5, 7>>

\* C16: a plug-in call of any kind from the handle's own stylus returns Ok,
\* and no event handed to handle_event reaches its todo!() arm.
C16_OwnCallsSucceed ==
    /\ [][PluginCall("own") => ret' = "Ok"]_vars
    /\ [](\A i \in DOMAIN log : log[i].tag \in WinTabEventTags)

C16_Witness ==
    /\ debug_assertions
    /\ ret = "Ok"
    /\ printed
    /\ Len(log) = 3
    /\ log[1].tag = "StylusActive"
    /\ log[2].tag = "StylusButtonUp"
    /\ log[3].tag = "StylusInactive"

\* C17: in every step that invokes the observer, the event's update is
\* already in the Cells the observer reads.  No step of the program invokes
\* the observer, so this says nothing about it.
C17_ObserverSeesUpdate ==
    [][calls' # calls =>
          /\ Last(calls')[2].tag = "StylusActive" => active' = TRUE
          /\ Last(calls')[2].tag = "StylusInactive" => active' = FALSE
          /\ Last(calls')[2].tag \in {"StylusButtonDown", "StylusButtonUp"} =>
                (x' = Last(calls')[2].x /\ y' = Last(calls')[2].y)]_vars

\* C18: a successful disable() leaves the stylus disabled; while it is
\* disabled and the RealTimeStylusDisabled call it owes has been made, no
\* step hands an event to handle_event, changes active, x, y or pressure, or
\* invokes the observer; the owed call itself is applied in full.
Quiet == ~stylusEnabled /\ ~pendingDisabled

C18_DisableStopsDelivery ==
    [][/\ SetEnabledFalse(TRUE) => (ret' = "Ok" /\ ~stylusEnabled')
       /\ Quiet => (UNCHANGED shared /\ UNCHANGED log /\ UNCHANGED calls)
       /\ (~stylusEnabled /\ RealTimeStylusDisabled("own")) =>
             (active' = FALSE /\ log' = Append(log, StylusInactive))]_vars

C18_Witness ==
    /\ Quiet
    /\ handle = "live"
    /\ ret = "Ok"
    /\ log = <<StylusButtonDown(5, 7), StylusActive, StylusInactive>>
    /\ active = FALSE
    /\ <<x, y>> = <<5, 7>>

\* C19: on() changes the observer slot only; enable() and disable(), accepted
\* or rejected, leave the slot as it is; and after a disable/enable cycle
\* (the RealTimeStylusDisabled call of the disable still owed) an event
\* handled is delivered to the observer registered before the cycle.
C19_ObserverSurvivesCycle ==
    [][/\ \A cb \in Observers :
             On(cb) => (UNCHANGED shared
                        /\ UNCHANGED <<stylusEnabled, pendingDisabled>>)
       /\ (enable \/ disable) => UNCHANGED on
       /\ (stylusEnabled /\ pendingDisabled /\ log' # log) =>
             calls' = Append(calls, <<on, Last(log')>>)]_vars

====
